---- MODULE Spec2Model ----
(***************************************************************************)
(* Music-Stream-Sync: the AudioSyncEngine, the P2PManager and the App of  *)
(* frontend/src/App.js, and the signalling relay of spec.md 4.3.           *)
(*                                                                         *)
(* Spec and SpecChunks run the AudioSyncEngine, SpecP2P one P2PManager     *)
(* against its RTCPeerConnection, SpecSync the host's sync interval and    *)
(* live capture against one client, SpecSignal the pages' relay            *)
(* WebSockets, the relay and the offer/answer/ICE exchange.                *)
(*                                                                         *)
(* Time.  audioContext.currentTime (seconds) and every media position are  *)
(* kept in ticks of half a millisecond, performance.now() in whole         *)
(* milliseconds, so that syncWithHost's (now - hostTimestamp) / 2 / 1000   *)
(* is exact: a latency of L ms is L ticks.  Arithmetic on this grid is     *)
(* exact; the rounding of IEEE doubles is not modelled.                    *)
(***************************************************************************)
EXTENDS Integers, Sequences, FiniteSets

\* ---------------------------------------------------------------- bounds
\* The clocks stop advancing after MaxClock periods of 20 ms of
\* performance.now().
MaxClock == 3
\* At most MaxChunks chunks are scheduled by playAudioChunk in one run.
MaxChunks == 3
\* At most MaxSent messages are sent on one data channel in one run.
MaxSent == 2
\* At most MaxCandidates remote ICE candidates are taken by one connection.
MaxCandidates == 1
\* Each peer connection produces at most MaxIce local ICE candidates.
MaxIce == 1
\* The host's sync interval is followed for MaxSyncClock periods of 100 ms.
MaxSyncClock == 3
\* The host presses play/pause or a seek button at most MaxToggles times in
\* one run.
MaxToggles == 3
\* Bound on the getUserMedia calls, and on the script processors created.
MaxCaptures == 2
\* Bound on the envelopes waiting on one connection of the relay.
MaxQueue == 1

\* ------------------------------------------------------------ time units
\* Two ticks to the millisecond: syncWithHost halves a whole number of ms.
TicksPerMs == 2
Ms(x) == x * TicksPerMs

\* Mutant: a threshold of 100 ms.
SyncThreshold_wide == Ms(100)

\* The 50 ms threshold of syncWithHost (0.05 s).
SyncThreshold == Ms(50)
\* createBuffer(1, length, sampleRate || 44100): the fallback rate.
DefaultSampleRate == 44100

\* ---------------------------------------------------------------- inputs
\* Clock advances between two events, in milliseconds.
Deltas == {20, 40}
\* Offsets handed to play(x) and seek(x), in ticks: a negative one, the
\* positions 9.800 s, 9.900 s and 9.960 s, and one beyond the buffer's end.
Offsets == {Ms(-500), Ms(9800), Ms(9900), Ms(9960), Ms(12000)}
\* Durations of the decoded audio files, in ticks (10.000 s).
Durations == {Ms(10000)}
\* playback_position values of sync_state messages, in ticks.
HostTimes == {Ms(10000), Ms(9950)}
\* performance.now() - hostTimestamp of a sync_state message, in ms.
Latencies == {0, 1, 40}
\* (audioData.length, sampleRate) of received audio chunks; a rate of 0
\* stands for a missing sampleRate, a length of 0 for an empty chunk.
ChunkShapes == {<<4096, 64000>>, <<882, 44100>>, <<441, 0>>, <<0, 44100>>}

VARIABLES
    perfNow,        \* performance.now(), ms
    audioContext,   \* TRUE once initialize() created the AudioContext
    currentTime,    \* audioContext.currentTime, ticks
    audioBuffer,    \* NoBuffer (null) or the decoded buffer's duration, ticks
    sourceNode,     \* "null", "started" or "stopped"
    startTime,      \* this.startTime, ticks
    pauseTime,      \* this.pauseTime, ticks
    isPlaying,      \* this.isPlaying
    nextPlayTime,   \* this.nextPlayTime, ticks
    scheduled,      \* the chunk source nodes started, in call order
    lastCall,       \* the engine method called last, and its arguments
    p2p,            \* one P2PManager and its RTCPeerConnection
    sync,           \* the host's and the client's App around the sync ticks
    signal,         \* the Apps' relay WebSockets, the relay and the negotiation
    capture         \* the engine's microphone capture and the App around it

vars == <<perfNow, audioContext, currentTime, audioBuffer, sourceNode,
          startTime, pauseTime, isPlaying, nextPlayTime, scheduled, lastCall,
          p2p, sync, signal, capture>>

\* What the AudioSyncEngine's methods leave alone.
netVars == <<p2p, sync, signal, capture>>
\* What the P2PManager's methods leave alone.
engineVars == <<perfNow, audioContext, currentTime, audioBuffer, sourceNode,
                startTime, pauseTime, isPlaying, nextPlayTime, scheduled,
                lastCall, sync, signal, capture>>

clockVars == <<perfNow, currentTime>>
chunkVars == <<nextPlayTime, scheduled>>

\* this.audioBuffer = null
NoBuffer == 0

\* ------------------------------------------------- the playback clock state
\* The fields play/pause/stop/seek write, as one value.
Engine == [sourceNode |-> sourceNode, startTime |-> startTime,
           pauseTime |-> pauseTime, isPlaying |-> isPlaying]

SetEngine(e) ==
    /\ sourceNode' = e.sourceNode
    /\ startTime' = e.startTime
    /\ pauseTime' = e.pauseTime
    /\ isPlaying' = e.isPlaying

Abs(x) == IF x < 0 THEN -x ELSE x
Max(a, b) == IF a >= b THEN a ELSE b
Min(a, b) == IF a <= b THEN a ELSE b

\* Mutant: the playing branch is missing.
getCurrentTime_pausedOnly(e) == e.pauseTime

\* getCurrentTime()
getCurrentTime(e) ==
    IF ~e.isPlaying THEN e.pauseTime ELSE currentTime - e.startTime

\* stop()
stop(e) ==
    [sourceNode |-> "null", startTime |-> 0, pauseTime |-> 0,
     isPlaying |-> FALSE]

\* play(startOffset): the state it leaves (unchanged when it returns false)
playOk == audioBuffer # NoBuffer /\ audioContext

\* Mutant: startTime is taken as now, the offset forgotten.
play_ignoresOffset(e, startOffset) ==
    IF ~playOk THEN e
    ELSE [stop(e) EXCEPT !.sourceNode = "started",
                         !.startTime = currentTime,
                         !.isPlaying = TRUE]

\* Mutant: stop() runs before the check of the buffer and the context.
play_stopsFirst(e, startOffset) ==
    IF ~playOk THEN stop(e)
    ELSE [stop(e) EXCEPT !.sourceNode = "started",
                         !.startTime = currentTime - startOffset,
                         !.isPlaying = TRUE]

play(e, startOffset) ==
    IF ~playOk THEN e
    ELSE [stop(e) EXCEPT !.sourceNode = "started",
                         !.startTime = currentTime - startOffset,
                         !.isPlaying = TRUE]

\* Mutant: the position is not stored.
pause_noStore(e) ==
    IF e.sourceNode # "null" /\ e.isPlaying
    THEN [e EXCEPT !.sourceNode = "stopped", !.isPlaying = FALSE]
    ELSE e

\* Mutant: the isPlaying test is missing from the guard.
pause_noGuard(e) ==
    IF e.sourceNode # "null"
    THEN [e EXCEPT !.pauseTime = currentTime - e.startTime,
                   !.sourceNode = "stopped",
                   !.isPlaying = FALSE]
    ELSE e

\* pause()
pause(e) ==
    IF e.sourceNode # "null" /\ e.isPlaying
    THEN [e EXCEPT !.pauseTime = currentTime - e.startTime,
                   !.sourceNode = "stopped",
                   !.isPlaying = FALSE]
    ELSE e

\* Mutant: the offset is clamped to [0, duration].
seek_clamped(e, time) ==
    LET t == IF time < 0 THEN 0
             ELSE IF audioBuffer # NoBuffer /\ time > audioBuffer
                  THEN audioBuffer ELSE time
    IN  IF e.isPlaying THEN play(e, t) ELSE [e EXCEPT !.pauseTime = t]

\* seek(time)
seek(e, time) ==
    IF e.isPlaying THEN play(e, time) ELSE [e EXCEPT !.pauseTime = time]

\* Mutant: the round trip is not halved.
targetTime_fullLatency(hostTime, hostTimestamp) ==
    hostTime + Ms(perfNow - hostTimestamp)

\* syncWithHost(hostTime, hostTimestamp)
targetTime(hostTime, hostTimestamp) ==
    \* networkLatency = (now - hostTimestamp) / 2, in ms; hostTime +
    \* networkLatency / 1000, in s.  Ms(d) is even, so the halving is exact.
    hostTime + Ms(perfNow - hostTimestamp) \div 2

\* Mutant: the comparison is >= instead of >.
syncWithHost_atThreshold(e, hostTime, hostTimestamp) ==
    IF Abs(getCurrentTime(e) - targetTime(hostTime, hostTimestamp)) >= SyncThreshold
    THEN seek(e, targetTime(hostTime, hostTimestamp))
    ELSE e

syncWithHost(e, hostTime, hostTimestamp) ==
    IF Abs(getCurrentTime(e) - targetTime(hostTime, hostTimestamp)) > SyncThreshold
    THEN seek(e, targetTime(hostTime, hostTimestamp))
    ELSE e

\* ------------------------------------------------------------------ calls
\* lastCall records the method called last: its name and arguments, the
\* position getCurrentTime() returned just before it ran, whether the call
\* before it was to the same method, and whether the clock has advanced
\* since (fresh = FALSE).
Call(op, a, b) ==
    [op |-> op, arg |-> a, arg2 |-> b,
     before |-> IF isPlaying THEN currentTime - startTime ELSE pauseTime,
     repeat |-> (lastCall.op = op), fresh |-> TRUE]

\* The App's state around the sync ticks, on the host's page (h...) and on
\* the client's (c...): the React states mode, broadcastMode, audioFile,
\* isPlaying, isLiveBroadcasting and currentTime, the host's engine
\* (hBuffer, hEngine), the time at which the sync interval fires next
\* (interval, -1 when cleared), and the channel between the two: its
\* latency and the number of messages of p2p.sent already received.
\* capture is the time at which the script processor hands over its next
\* buffer (-1 when not capturing).  toggles, ticks and reseek are history:
\* the presses of play/pause, the sync_state messages the client handled
\* and whether the last one made its engine seek.
SyncNew(latency) ==
    [mode |-> "host-setup", broadcastMode |-> "file", audioFile |-> FALSE,
     hBuffer |-> NoBuffer,
     hEngine |-> [sourceNode |-> "null", startTime |-> 0, pauseTime |-> 0,
                  isPlaying |-> FALSE],
     hIsPlaying |-> FALSE, hLive |-> FALSE, hCurrentTime |-> 0,
     interval |-> -1, capture |-> -1, toggles |-> 0,
     latency |-> latency, received |-> 0, ticks |-> 0, reseek |-> FALSE,
     cIsPlaying |-> FALSE, cCurrentTime |-> 0]

\* constructor(onMessage, onStateChange)
P2PNew ==
    [peerConnection |-> "null", dataChannel |-> "null", isHost |-> FALSE,
     connectionState |-> "disconnected", reported |-> "disconnected",
     signaling |-> "stable", remote |-> FALSE, sent |-> <<>>,
     candidates |-> 0, rejected |-> FALSE, everRejected |-> FALSE,
     closeCalled |-> FALSE, last |-> [op |-> "new", arg |-> "none"]]

\* The participants of one session: the host's page and the clients' pages.
Host == "h"
Clients == {"c1", "c2"}
Participants == {Host} \cup Clients
\* Each page opens at most two relay WebSockets: the one of its setup mode
\* and the one of its host or client mode.  A socket is a connection of the
\* relay, named by the page and the socket's number.
Sockets == {1, 2}
ConnIds == Participants \X Sockets
\* The relay as the sender of an envelope, and the target 'broadcast'.
RelayId == <<"relay", 0>>
Broadcast == <<"broadcast", 0>>

\* An envelope on its way from the relay to a socket.
Envelope(type, from, arg) == [type |-> type, from |-> from, arg |-> arg]

\* One page: the React state mode, the sockets' readyState ("none" before
\* new WebSocket), wsConnection.current as a socket number (0 for null),
\* whether the effect of the last setMode is still to run, p2pManager.current
\* (hasManager = FALSE for null), whether initializeP2P still awaits
\* createOffer, connectedClients, and history: which connections' answers
\* and candidates were given to the manager, how many ICE candidates the
\* peer connection produced and how many of them went out on a socket,
\* whether the page asked to join when the host was already in mode
\* 'host', and the socket that carried the page's host_create_session or
\* client_join_session (0 when none did).  dataMode is the mode that the
\* handleP2PData given to the P2PManager has captured ("none" without a
\* manager).
AppNew ==
    [mode |-> "selector", ws |-> <<"none", "none">>, current |-> 0,
     effect |-> FALSE, hasManager |-> FALSE, manager |-> P2PNew,
     offerPending |-> FALSE, connectedClients |-> {}, answersFrom |-> {},
     candidatesFrom |-> {}, produced |-> 0, handed |-> 0,
     joinedLate |-> FALSE, requestOn |-> 0, dataMode |-> "none"]

\* The pages, the relay (its open connections conns and its one session),
\* the envelopes the relay has written to each socket and the page has not
\* yet read (down), the last message given to sendWebSocketMessage, and,
\* where the relay is followed by itself, the last thing that happened at the
\* relay (event) and the host and members of the session torn down last.
SignalNew ==
    [app |-> [p \in Participants |-> AppNew],
     conns |-> {},
     session |-> [open |-> FALSE, host |-> RelayId, members |-> {}],
     down |-> [c \in ConnIds |-> <<>>],
     lastSent |-> [type |-> "none", from |-> Host, target |-> RelayId,
                   sent |-> FALSE],
     event |-> [op |-> "none", conn |-> RelayId, target |-> RelayId],
     torn |-> [host |-> RelayId, members |-> {}]]

\* The capture fields of the AudioSyncEngine after its constructor
\* (mediaStream, isLiveBroadcasting, onAudioChunk, scriptProcessor,
\* sourceAudioNode; a node or stream is a number, 0 is null), the audio graph
\* around them (streams getUserMedia returned, those whose tracks are live,
\* script processors created, those still connected), the getUserMedia
\* requests in flight with what continues after each, the App's React states
\* hasMicrophoneAccess, broadcastMode, isLiveBroadcasting, isPlaying, the
\* number of getUserMedia calls made and the number of onAudioChunk
\* invocations of the last audio frame.
CaptureNew ==
    [mediaStream |-> 0, isLiveBroadcasting |-> FALSE, onAudioChunk |-> FALSE,
     scriptProcessor |-> 0, sourceAudioNode |-> 0,
     streams |-> 0, tracks |-> {}, nodes |-> 0, connected |-> {},
     pending |-> <<>>,
     hasMicrophoneAccess |-> FALSE, broadcastMode |-> "file",
     appLive |-> FALSE, appPlaying |-> FALSE,
     requests |-> 0, delivered |-> 0]

Init ==
    /\ perfNow = 0
    /\ audioContext = FALSE
    /\ currentTime = 0
    /\ audioBuffer = NoBuffer
    /\ sourceNode = "null"
    /\ startTime = 0
    /\ pauseTime = 0
    /\ isPlaying = FALSE
    /\ nextPlayTime = 0
    /\ scheduled = <<>>
    /\ lastCall = [op |-> "new", arg |-> 0, arg2 |-> 0, before |-> 0,
                   repeat |-> FALSE, fresh |-> TRUE]
    /\ p2p = P2PNew
    /\ sync = SyncNew(0)
    /\ signal = SignalNew
    /\ capture = CaptureNew

\* initialize(): the AudioContext is created and its clock starts at 0.
Initialize ==
    /\ ~audioContext
    /\ audioContext' = TRUE
    /\ currentTime' = 0
    /\ lastCall' = Call("initialize", 0, 0)
    /\ UNCHANGED <<perfNow, audioBuffer, sourceNode, startTime, pauseTime,
                   isPlaying, chunkVars>>
    /\ UNCHANGED netVars

\* Time passes: both clocks advance by d ms (the audio clock once it exists).
Tick(d) ==
    /\ perfNow + d <= MaxClock * 20
    /\ perfNow' = perfNow + d
    /\ currentTime' = IF audioContext THEN currentTime + Ms(d) ELSE currentTime
    /\ lastCall' = [lastCall EXCEPT !.fresh = FALSE]
    /\ UNCHANGED <<audioContext, audioBuffer, sourceNode, startTime,
                   pauseTime, isPlaying, chunkVars>>
    /\ UNCHANGED netVars

\* loadAudioFile(file): decodeAudioData resolves with a buffer of duration d,
\* or rejects (d = NoBuffer) and the catch returns false.  Without an
\* AudioContext the call throws inside the try and returns false as well.
loadAudioFileOk(d) == audioContext /\ d # NoBuffer

\* Mutant: a failed decode leaves the engine without a buffer.
loadAudioFile_clearsOnFailure(buffer, d) ==
    IF loadAudioFileOk(d) THEN d ELSE NoBuffer

\* The buffer loadAudioFile leaves; lastCall.arg2 records the value returned
\* (1 for true, 0 for false).
loadAudioFile(buffer, d) ==
    IF loadAudioFileOk(d) THEN d ELSE buffer

LoadAudioFile(d) ==
    /\ audioBuffer' = loadAudioFile(audioBuffer, d)
    /\ lastCall' = Call("loadAudioFile", d, IF loadAudioFileOk(d) THEN 1 ELSE 0)
    /\ UNCHANGED <<clockVars, audioContext, sourceNode, startTime, pauseTime,
                   isPlaying, chunkVars>>
    /\ UNCHANGED netVars

Play(x) ==
    /\ SetEngine(play(Engine, x))
    /\ lastCall' = Call("play", x, IF playOk THEN 1 ELSE 0)
    /\ UNCHANGED <<clockVars, audioContext, audioBuffer, chunkVars>>
    /\ UNCHANGED netVars

Pause ==
    /\ SetEngine(pause(Engine))
    /\ lastCall' = Call("pause", 0, 0)
    /\ UNCHANGED <<clockVars, audioContext, audioBuffer, chunkVars>>
    /\ UNCHANGED netVars

Stop ==
    /\ SetEngine(stop(Engine))
    /\ lastCall' = Call("stop", 0, 0)
    /\ UNCHANGED <<clockVars, audioContext, audioBuffer, chunkVars>>
    /\ UNCHANGED netVars

Seek(x) ==
    /\ SetEngine(seek(Engine, x))
    /\ lastCall' = Call("seek", x, 0)
    /\ UNCHANGED <<clockVars, audioContext, audioBuffer, chunkVars>>
    /\ UNCHANGED netVars

SyncWithHost(hostTime, hostTimestamp) ==
    /\ SetEngine(syncWithHost(Engine, hostTime, hostTimestamp))
    /\ lastCall' = Call("syncWithHost", hostTime, hostTimestamp)
    /\ UNCHANGED <<clockVars, audioContext, audioBuffer, chunkVars>>
    /\ UNCHANGED netVars

\* playAudioChunk(audioData, timestamp, sampleRate), with audioData.length
\* = len.  createBuffer throws on an empty chunk and the catch swallows it.
chunkDuration(len, sampleRate) ==
    (len * 1000 * TicksPerMs)
        \div (IF sampleRate # 0 THEN sampleRate ELSE DefaultSampleRate)

\* Mutant: the chunk is started at once, whatever is still queued.
playTime_now == currentTime

playTime == Max(currentTime, nextPlayTime)

\* Mutant: the next slot is counted from the arrival, not from the start.
nextSlot_fromNow(len, sampleRate) ==
    currentTime + chunkDuration(len, sampleRate)

nextSlot(len, sampleRate) == playTime + chunkDuration(len, sampleRate)

PlayAudioChunk(len, sampleRate) ==
    /\ Len(scheduled) < MaxChunks
    /\ IF audioContext /\ len > 0
       THEN /\ scheduled' = Append(scheduled,
                    [start |-> playTime, dur |-> chunkDuration(len, sampleRate),
                     arrival |-> currentTime])
            /\ nextPlayTime' = nextSlot(len, sampleRate)
       ELSE UNCHANGED chunkVars
    /\ lastCall' = Call("playAudioChunk", len, sampleRate)
    /\ UNCHANGED <<clockVars, audioContext, audioBuffer, sourceNode,
                   startTime, pauseTime, isPlaying>>
    /\ UNCHANGED netVars

Next ==
    \/ Initialize
    \/ \E d \in Deltas : Tick(d)
    \/ \E d \in Durations \cup {NoBuffer} : LoadAudioFile(d)
    \/ \E x \in Offsets : Play(x)
    \/ Pause
    \/ Stop
    \/ \E x \in Offsets : Seek(x)
    \/ \E h \in HostTimes, l \in Latencies : SyncWithHost(h, perfNow - l)

Spec == Init /\ [][Next]_vars

\* The client's engine fed by a host whose performance.now() has another
\* origin: a sync_state that left the host l ms ago carries the host's clock
\* reading, the client's reading of that instant shifted by o ms (both in ms).
SkewLatencies == {0, 40}
ClockOffsets == {-1000, 0, 1000}

NextClocks ==
    \/ Initialize
    \/ \E d \in Deltas : Tick(d)
    \/ \E d \in Durations : LoadAudioFile(d)
    \/ \E x \in Offsets : Play(x)
    \/ Pause
    \/ \E h \in HostTimes, l \in SkewLatencies, o \in ClockOffsets :
           SyncWithHost(h, perfNow - l + o)

SpecClocks == Init /\ [][NextClocks]_vars

\* The receiving side of a live stream: chunks arrive while time passes.
NextChunks ==
    \/ Initialize
    \/ \E d \in Deltas : Tick(d)
    \/ \E c \in ChunkShapes : PlayAudioChunk(c[1], c[2])

SpecChunks == Init /\ [][NextChunks]_vars

\* ------------------------------------------------------------ P2PManager
\* A manager m is a record.  peerConnection is "null" or the
\* RTCPeerConnection's connectionState, dataChannel is "null" or the
\* RTCDataChannel's readyState, signaling is the connection's
\* signalingState, remote tells whether a remote description is set,
\* connectionState is this.connectionState and reported is the state last
\* handed to onStateChange (the App's connectionState).  sent lists the
\* messages handed to dataChannel.send; candidates counts the remote
\* candidates the connection took; rejected tells whether a call ended in a
\* rejected promise, everRejected whether one ever did; closeCalled whether
\* close() ran; last is the method or event handled last.

\* Messages of the direct peer channel.
DataTypes == {"sync_state", "audio_chunk"}
\* ICE candidates by what the connection does with them: "valid" is taken,
\* "stray" (unknown ufrag, malformed) is refused with an OperationError.
CandidateKinds == {"valid", "stray"}

\* An awaited call of the RTCPeerConnection rejects: the async method throws.
Rejected(m) == [m EXCEPT !.rejected = TRUE, !.everRejected = TRUE]

\* initialize(isHost)
initialize(m, isHost) ==
    [m EXCEPT !.isHost = isHost,
              !.peerConnection = "new",
              !.dataChannel = IF isHost THEN "connecting" ELSE "null"]

\* onconnectionstatechange
onconnectionstatechange(m, state) ==
    [m EXCEPT !.peerConnection = state,
              !.connectionState = state,
              !.reported = state]

\* The connectionState changes an RTCPeerConnection goes through by itself;
\* "closed" is entered by close() alone, and without an event.
PcTransitions(m) ==
    CASE m.peerConnection = "new" /\ m.signaling = "stable" /\ m.remote
            -> {"connecting"}
      [] m.peerConnection = "connecting" -> {"connected", "failed"}
      [] m.peerConnection = "connected" -> {"disconnected"}
      [] m.peerConnection = "disconnected" -> {"connected", "failed"}
      [] OTHER -> {}

\* peerConnection.ondatachannel (registered by a client only)
ondatachannel(m) == [m EXCEPT !.dataChannel = "connecting"]

\* dataChannel.onopen
onopen(m) == [m EXCEPT !.dataChannel = "open", !.reported = "connected"]

\* dataChannel.onclose
onclose(m) == [m EXCEPT !.dataChannel = "closed", !.reported = "disconnected"]

\* createOffer()
createOffer(m) ==
    IF m.peerConnection = "null" THEN m
    ELSE IF m.peerConnection = "closed" \/ m.signaling # "stable"
         THEN Rejected(m)
         ELSE [m EXCEPT !.signaling = "have-local-offer"]

\* createAnswer(offer)
createAnswer(m) ==
    IF m.peerConnection = "null" THEN m
    ELSE IF m.peerConnection = "closed" \/ m.signaling # "stable"
         THEN Rejected(m)
         ELSE [m EXCEPT !.remote = TRUE]

\* handleAnswer(answer)
handleAnswer(m) ==
    IF m.peerConnection = "null" THEN m
    ELSE IF m.peerConnection = "closed" \/ m.signaling # "have-local-offer"
         THEN Rejected(m)
         ELSE [m EXCEPT !.signaling = "stable", !.remote = TRUE]

\* Mutant: a refused candidate tears the connection down.
addIceCandidate_closesOnError(m, candidate) ==
    IF m.peerConnection = "null" THEN m
    ELSE IF m.peerConnection = "closed" \/ ~m.remote \/ candidate = "stray"
         THEN [Rejected(m) EXCEPT !.peerConnection = "closed",
                                  !.connectionState = "closed",
                                  !.reported = "closed"]
         ELSE [m EXCEPT !.candidates = m.candidates + 1]

\* addIceCandidate(candidate)
addIceCandidate(m, candidate) ==
    IF m.peerConnection = "null" THEN m
    ELSE IF m.peerConnection = "closed" \/ ~m.remote \/ candidate = "stray"
         THEN Rejected(m)
         ELSE [m EXCEPT !.candidates = m.candidates + 1]

\* Mutant: the readyState test is missing.
sendData_noReadyCheck(m, data) ==
    IF m.dataChannel # "null"
    THEN [m EXCEPT !.sent = Append(m.sent, data)]
    ELSE m

\* sendData(data)
sendData(m, data) ==
    IF m.dataChannel # "null" /\ m.dataChannel = "open"
    THEN [m EXCEPT !.sent = Append(m.sent, data)]
    ELSE m

\* close(): dataChannel.close() starts the channel's closing procedure and
\* peerConnection.close() closes the connection without firing
\* connectionstatechange.  Whether the channel still fires its close event
\* after the connection was closed differs between browsers: closeEvent.
close(m, closeEvent) ==
    [m EXCEPT !.dataChannel =
                  IF m.dataChannel \in {"null", "closed"} THEN m.dataChannel
                  ELSE IF closeEvent THEN "closing" ELSE "closed",
              !.peerConnection =
                  IF m.peerConnection = "null" THEN "null" ELSE "closed",
              !.closeCalled = TRUE]

\* The manager after a call or event: the method's effect, and its record.
Did(m, op, arg) == [m EXCEPT !.last = [op |-> op, arg |-> arg]]

\* A call starts with no rejection pending.
Fresh == [p2p EXCEPT !.rejected = FALSE]

P2PInitialize(isHost) ==
    /\ p2p.peerConnection = "null" /\ ~p2p.closeCalled
    /\ p2p' = Did(initialize(Fresh, isHost), "initialize", "none")
    /\ UNCHANGED engineVars

P2PCreateOffer ==
    /\ p2p' = Did(createOffer(Fresh), "createOffer", "none")
    /\ UNCHANGED engineVars

P2PCreateAnswer ==
    /\ p2p' = Did(createAnswer(Fresh), "createAnswer", "none")
    /\ UNCHANGED engineVars

P2PHandleAnswer ==
    /\ p2p' = Did(handleAnswer(Fresh), "handleAnswer", "none")
    /\ UNCHANGED engineVars

P2PAddIceCandidate(candidate) ==
    /\ p2p.candidates < MaxCandidates
    /\ p2p' = Did(addIceCandidate(Fresh, candidate), "addIceCandidate",
                  candidate)
    /\ UNCHANGED engineVars

P2PSendData(data) ==
    /\ Len(p2p.sent) < MaxSent
    /\ p2p' = Did(sendData(Fresh, data), "sendData", data)
    /\ UNCHANGED engineVars

P2PClose ==
    /\ \E closeEvent \in BOOLEAN :
           p2p' = Did(close(Fresh, closeEvent), "close", "none")
    /\ UNCHANGED engineVars

PcStateChange ==
    /\ \E state \in PcTransitions(p2p) :
           p2p' = Did(onconnectionstatechange(Fresh, state),
                      "onconnectionstatechange", state)
    /\ UNCHANGED engineVars

OnDataChannel ==
    /\ ~p2p.isHost /\ p2p.peerConnection = "connected"
    /\ p2p.dataChannel = "null"
    /\ p2p' = Did(ondatachannel(Fresh), "ondatachannel", "none")
    /\ UNCHANGED engineVars

DataChannelOpen ==
    /\ p2p.dataChannel = "connecting" /\ p2p.peerConnection = "connected"
    /\ p2p' = Did(onopen(Fresh), "onopen", "none")
    /\ UNCHANGED engineVars

\* The channel closes: the peer closed it, the transport failed, or close().
DataChannelClose ==
    /\ p2p.dataChannel \in {"open", "closing"}
    /\ p2p' = Did(onclose(Fresh), "onclose", "none")
    /\ UNCHANGED engineVars

NextP2P ==
    \/ \E isHost \in BOOLEAN : P2PInitialize(isHost)
    \/ P2PCreateOffer
    \/ P2PCreateAnswer
    \/ P2PHandleAnswer
    \/ \E c \in CandidateKinds : P2PAddIceCandidate(c)
    \/ \E d \in DataTypes : P2PSendData(d)
    \/ P2PClose
    \/ PcStateChange
    \/ OnDataChannel
    \/ DataChannelOpen
    \/ DataChannelClose

SpecP2P == Init /\ [][NextP2P]_vars

\* ------------------------------------------------------------------ claims
\* A step that is a call of method op (Tick clears fresh; a call sets it).
CallStep(op) == lastCall'.fresh /\ lastCall'.op = op
TickStep == perfNow' # perfNow

C2_LinearAdvance ==
    [][(TickStep /\ isPlaying)
          => /\ isPlaying'
             /\ getCurrentTime(Engine)' - getCurrentTime(Engine)
                    = currentTime' - currentTime]_vars

\* C2 witness: 40 ms after play(9.9 s) the position is 9.94 s.
C2_Witness ==
    /\ isPlaying /\ ~lastCall.fresh /\ lastCall.op = "play"
    /\ lastCall.arg = Ms(9900)
    /\ getCurrentTime(Engine) = Ms(9940)

\* C3: pause() on a playing engine clears isPlaying and stores the position
\* reached at that instant; afterwards getCurrentTime() keeps returning that
\* value however far the clock advances, until the next play, seek or stop
\* (syncWithHost acts through seek).
C3_PauseFreezes ==
    [][/\ (CallStep("pause") /\ isPlaying)
            => /\ ~isPlaying'
               /\ pauseTime' = currentTime - startTime
               /\ getCurrentTime(Engine)' = getCurrentTime(Engine)
       /\ (~isPlaying /\ (TickStep \/ CallStep("pause")
                            \/ CallStep("loadAudioFile")))
            => /\ ~isPlaying'
               /\ getCurrentTime(Engine)' = getCurrentTime(Engine)]_vars

\* C3 witness: paused 20 ms after play(9.9 s), then time passed; the position
\* is still 9.92 s.
C3_Witness ==
    /\ lastCall.op = "pause" /\ ~lastCall.fresh /\ ~lastCall.repeat
    /\ lastCall.before = Ms(9920)
    /\ ~isPlaying /\ getCurrentTime(Engine) = Ms(9920)
    /\ currentTime - startTime > Ms(9920)

\* C4: pause() twice in a row, with any amount of clock time in between,
\* leaves getCurrentTime() and every engine field as after the first call.
C4_PauseIdempotent ==
    [][(CallStep("pause") /\ lastCall.op = "pause")
          => /\ Engine' = Engine
             /\ getCurrentTime(Engine)' = getCurrentTime(Engine)
             /\ UNCHANGED <<audioContext, audioBuffer, nextPlayTime, scheduled>>]_vars

\* C4 witness: a second pause() some time after the pause that froze 9.92 s.
C4_Witness ==
    /\ lastCall.op = "pause" /\ lastCall.fresh /\ lastCall.repeat
    /\ sourceNode = "stopped" /\ pauseTime = Ms(9920)
    /\ currentTime - startTime > pauseTime

\* C5: seek(x) does not clamp x; on a playing engine it leaves the state
\* play(x) leaves, on a paused engine it only rewrites pauseTime with x.
C5_SeekEffect ==
    [][CallStep("seek")
          => IF isPlaying
             THEN /\ Engine' = play(Engine, lastCall'.arg)
                  /\ isPlaying' /\ sourceNode' = "started"
                  /\ startTime' = currentTime - lastCall'.arg
                  /\ pauseTime' = 0
             ELSE /\ pauseTime' = lastCall'.arg
                  /\ UNCHANGED <<isPlaying, startTime, sourceNode>>]_vars

\* C5 witness: seek to 12 s, beyond the 10 s buffer, on an engine paused by
\* pause(); the stopped source node is still in place.
C5_Witness ==
    /\ lastCall.op = "seek" /\ lastCall.fresh /\ lastCall.arg = Ms(12000)
    /\ audioBuffer = Ms(10000)
    /\ ~isPlaying /\ sourceNode = "stopped" /\ pauseTime = Ms(12000)

\* C6: syncWithHost(hostTime, hostTimestamp) computes target = hostTime +
\* ((now - hostTimestamp) / 2) / 1000 and reseeks to it iff
\* |getCurrentTime() - target| > 50 ms; at 50 ms or less the playback clock
\* state is left as it was.
C6_SyncThreshold ==
    [][CallStep("syncWithHost")
          => LET latencyMs2 == perfNow - lastCall'.arg2   \* twice the latency, ms
                 target == lastCall'.arg + latencyMs2     \* ticks of 1/2 ms
                 drift == Abs(getCurrentTime(Engine) - target)
             IN  IF drift > 50 * TicksPerMs
                 THEN /\ Engine' = seek(Engine, target)
                      /\ getCurrentTime(Engine)' = target
                 ELSE Engine' = Engine]_vars

\* C6 witness: host 9.950 s with no latency against a local 9.900 s: the
\* drift is exactly 50 ms and nothing moved.
C6_Witness ==
    /\ lastCall.op = "syncWithHost" /\ lastCall.fresh
    /\ lastCall.arg = Ms(9950) /\ lastCall.arg2 = perfNow
    /\ lastCall.before = Ms(9900)
    /\ getCurrentTime(Engine) = Ms(9900)

\* The fixture of C7 and C8: host position 10.000 s stamped at T, applied
\* at local time T + 40 ms, the local position being pos.
FixtureStep(pos) ==
    /\ CallStep("syncWithHost")
    /\ lastCall'.arg = Ms(10000)
    /\ perfNow - lastCall'.arg2 = 40
    /\ getCurrentTime(Engine) = pos

FixtureDone(pos) ==
    /\ lastCall.op = "syncWithHost" /\ lastCall.fresh
    /\ lastCall.arg = Ms(10000)
    /\ perfNow - lastCall.arg2 = 40
    /\ lastCall.before = pos

\* C7 as stated: with host position 10.000 s stamped at T, a client at
\* 9.900 s applying the correction at T + 40 ms performs no reseek.
C7_Original ==
    [][FixtureStep(Ms(9900)) => Engine' = Engine]_vars

\* C7 amended: that client does reseek, to 10.020 s (its drift from the
\* projected host position is 120 ms).
C7_FixtureReseeks ==
    [][FixtureStep(Ms(9900))
          => /\ Engine' # Engine
             /\ getCurrentTime(Engine)' = Ms(10020)]_vars

C7_Witness ==
    /\ FixtureDone(Ms(9900))
    /\ getCurrentTime(Engine) = Ms(10020)

\* C8 as stated: in the same fixture a client at 9.800 s reseeks and a
\* client at 9.960 s does not.
C8_Original ==
    [][/\ FixtureStep(Ms(9800)) => Engine' # Engine
       /\ FixtureStep(Ms(9960)) => Engine' = Engine]_vars

\* C8 amended: a client at 9.800 s reseeks, and so does a client at 9.960 s
\* (drift 60 ms); both land on 10.020 s.
C8_FixtureBothReseek ==
    [][(FixtureStep(Ms(9800)) \/ FixtureStep(Ms(9960)))
          => /\ Engine' # Engine
             /\ getCurrentTime(Engine)' = Ms(10020)]_vars

C8_Witness ==
    /\ FixtureDone(Ms(9960))
    /\ isPlaying /\ getCurrentTime(Engine) = Ms(10020)

\* C9: the start time of chunk k is max(output clock at its arrival, end of
\* chunk k-1): the end of chunk k-1 when it arrives before that end, its
\* arrival time when it arrives after; nextPlayTime is then that start plus
\* the chunk's duration.
ChunkEnd(k) == IF k = 0 THEN 0 ELSE scheduled[k].start + scheduled[k].dur

C9_ChunkStart ==
    /\ \A k \in 1..Len(scheduled) :
          /\ scheduled[k].start = Max(scheduled[k].arrival, ChunkEnd(k - 1))
          /\ scheduled[k].arrival < ChunkEnd(k - 1)
                => scheduled[k].start = ChunkEnd(k - 1)
          /\ scheduled[k].arrival > ChunkEnd(k - 1)
                => scheduled[k].start = scheduled[k].arrival
    /\ nextPlayTime = ChunkEnd(Len(scheduled))

\* C9 witness: three chunks, the second played back to back with the first,
\* the third arriving after the second had ended.
C9_Witness ==
    /\ Len(scheduled) = 3
    /\ scheduled[2].arrival < ChunkEnd(1) /\ scheduled[2].start = ChunkEnd(1)
    /\ scheduled[3].arrival > ChunkEnd(2) /\ scheduled[3].start = scheduled[3].arrival

\* C10: under a non-decreasing output clock the scheduled intervals never
\* overlap and keep arrival order, no chunk starts before the clock reading
\* at its arrival, and nextPlayTime never decreases.
C10_NoOverlap ==
    /\ [](\A k \in 1..Len(scheduled) :
             /\ scheduled[k].start >= scheduled[k].arrival
             /\ k > 1 => scheduled[k].start >= ChunkEnd(k - 1)
             /\ \A j \in 1..(k - 1) :
                   scheduled[j].start + scheduled[j].dur <= scheduled[k].start)
    /\ [][nextPlayTime' >= nextPlayTime]_vars

\* C10 witness: a chunk that arrived late, leaving a gap before it.
C10_Witness ==
    /\ Len(scheduled) >= 2
    /\ scheduled[2].start > ChunkEnd(1)
    /\ nextPlayTime > currentTime


P2PCall(op) == p2p' # p2p /\ p2p'.last.op = op

\* The manager's fields other than the record of the last call.
P2PState(m) ==
    <<m.peerConnection, m.dataChannel, m.isHost, m.connectionState,
      m.reported, m.signaling, m.remote, m.candidates, m.closeCalled>>

\* C13: addIceCandidate before the manager is connected, also with a
\* candidate the connection refuses, leaves the connection, the channel,
\* connectionState and the reported state as they were (so never "closed"),
\* and the connection can go on exactly as it could before; a refused
\* candidate is not counted, a taken one is.
C13_CandidateNeverCloses ==
    [][(P2PCall("addIceCandidate") /\ p2p.reported # "connected")
        => /\ p2p'.peerConnection = p2p.peerConnection
           /\ p2p'.dataChannel = p2p.dataChannel
           /\ p2p'.connectionState = p2p.connectionState
           /\ p2p'.reported = p2p.reported
           /\ p2p'.reported # "closed"
           /\ p2p'.signaling = p2p.signaling
           /\ p2p'.remote = p2p.remote
           /\ PcTransitions(p2p') = PcTransitions(p2p)
           /\ p2p'.candidates =
                  IF p2p'.rejected THEN p2p.candidates
                  ELSE IF p2p.peerConnection = "null" THEN p2p.candidates
                  ELSE p2p.candidates + 1]_vars

\* A candidate was refused during negotiation, and the negotiation completed.
C13_Witness ==
    /\ p2p.everRejected
    /\ p2p.last.op = "onopen"
    /\ p2p.reported = "connected"
    /\ p2p.dataChannel = "open"
    /\ p2p.candidates = 1

\* C14: sendData hands the message to the channel exactly when the channel
\* exists and is open; otherwise it raises nothing and changes nothing, and
\* no other call or event ever sends a message.
C14_SendDataOnlyWhenOpen ==
    [][/\ P2PCall("sendData")
          => /\ p2p'.sent = IF p2p.dataChannel = "open"
                            THEN Append(p2p.sent, p2p'.last.arg)
                            ELSE p2p.sent
             /\ ~p2p'.rejected
             /\ P2PState(p2p') = P2PState(p2p)
       /\ p2p'.last.op # "sendData" => p2p'.sent = p2p.sent]_vars

\* One message went out while the channel was open; the next sendData found
\* the channel closed and sent nothing.
C14_Witness ==
    /\ p2p.last.op = "sendData"
    /\ p2p.dataChannel = "closed"
    /\ Len(p2p.sent) = 1

\* C15: once close() was called, connectionState and the state reported
\* through onStateChange are "closed", whatever happens later.
C15_CloseMovesToClosed ==
    p2p.closeCalled
        => p2p.connectionState = "closed" /\ p2p.reported = "closed"


\* ------------------------------------------------ the App's sync ticks
\* The host's page and one client's page, joined by the data channel of the
\* host's P2PManager p2p.  The engine variables are the client's
\* AudioSyncEngine, sync.hEngine is the host's.  Both pages were mounted at
\* the same instant, so their clocks agree; the channel delivers every
\* message, in order, sync.latency ms after it was sent.  The run starts
\* when the session is set up (in file mode with a decoded file, or in live
\* mode) and the data channel has opened.

\* Latencies of the data channel, in ms.
SyncLatencies == {0, 20, 40}
\* The clock advances in steps of SyncStep ms.
SyncStep == 20
\* setInterval(..., 100)
SyncPeriod == 100
\* createScriptProcessor(4096, 1, 1) at the sampleRate 44100 asked for.
LiveChunkLength == 4096
LiveSampleRate == 44100
\* onaudioprocess fires once per buffer of 4096 frames: every 92.9 ms, taken
\* to the clock's step.
LiveChunkPeriod == 100

\* The host's manager once negotiation is over and its channel has opened.
HostConnected ==
    [P2PNew EXCEPT !.isHost = TRUE, !.peerConnection = "connected",
                   !.dataChannel = "open", !.connectionState = "connected",
                   !.reported = "connected", !.remote = TRUE,
                   !.last = [op |-> "onopen", arg |-> "none"]]

\* The host's page in mode 'host' after createSession, in broadcastMode b.
HostReady(latency, b) ==
    [SyncNew(latency) EXCEPT
        !.mode = "host", !.broadcastMode = b, !.audioFile = (b = "file"),
        !.hBuffer = IF b = "file" THEN Ms(10000) ELSE NoBuffer]

\* The state after both pages were mounted: initialize() has run.
InitSync ==
    /\ perfNow = 0
    /\ audioContext = TRUE
    /\ currentTime = 0
    /\ audioBuffer = NoBuffer
    /\ sourceNode = "null"
    /\ startTime = 0
    /\ pauseTime = 0
    /\ isPlaying = FALSE
    /\ nextPlayTime = 0
    /\ scheduled = <<>>
    /\ lastCall = [op |-> "initialize", arg |-> 0, arg2 |-> 0, before |-> 0,
                   repeat |-> FALSE, fresh |-> TRUE]
    /\ p2p = HostConnected
    /\ \E l \in SyncLatencies, b \in {"file", "live"} :
           sync = HostReady(l, b)
    /\ signal = SignalNew
    /\ capture = CaptureNew

\* The sync interval effect, deps [isPlaying, mode]: the interval is set
\* when isPlaying turns true in mode 'host' and cleared when it turns false.
syncEffect(a, playing) ==
    [a EXCEPT !.hIsPlaying = playing,
              !.interval = IF ~playing THEN -1
                           ELSE IF a.hIsPlaying THEN a.interval
                           ELSE perfNow + SyncPeriod]

\* play(startOffset) of the host's engine
hostPlayOk(a) == a.hBuffer # NoBuffer /\ audioContext
hostPlay(a, startOffset) ==
    IF ~hostPlayOk(a) THEN a.hEngine
    ELSE [stop(a.hEngine) EXCEPT !.sourceNode = "started",
                                 !.startTime = currentTime - startOffset,
                                 !.isPlaying = TRUE]

\* togglePlayback()
togglePlayback(a) ==
    IF a.mode # "host" THEN a
    ELSE IF a.hIsPlaying
         THEN syncEffect([a EXCEPT !.hEngine = pause(a.hEngine)], FALSE)
         ELSE IF hostPlayOk(a)
              THEN syncEffect([a EXCEPT !.hEngine =
                                   hostPlay(a, a.hCurrentTime)], TRUE)
              ELSE a

\* The seek buttons: audioEngine.current.seek(Math.max(0, currentTime - 10))
\* and seek(Math.min(duration, currentTime + 10)), with the React states
\* currentTime and duration; seek(time) of the host's engine.
SeekStep == Ms(10000)
seekTarget(a, forward) ==
    IF forward THEN Min(a.hBuffer, a.hCurrentTime + SeekStep)
    ELSE Max(0, a.hCurrentTime - SeekStep)
hostSeek(a, time) ==
    [a EXCEPT !.hEngine = IF a.hEngine.isPlaying THEN hostPlay(a, time)
                          ELSE [a.hEngine EXCEPT !.pauseTime = time]]

\* startLiveBroadcast(): success tells whether the microphone was granted.
\* The script processor delivers its first buffer one period later.
startLiveBroadcast(a, success) ==
    IF success
    THEN syncEffect([a EXCEPT !.hLive = TRUE,
                              !.capture = perfNow + LiveChunkPeriod], TRUE)
    ELSE a

\* stopLiveBroadcast()
stopLiveBroadcast(a) ==
    syncEffect([a EXCEPT !.hLive = FALSE, !.capture = -1], FALSE)

\* The sync_state message of the interval callback.
syncState(a) ==
    [type |-> "sync_state", playback_position |-> getCurrentTime(a.hEngine),
     is_playing |-> a.hIsPlaying, timestamp |-> perfNow]

\* The audio_chunk message of startLiveBroadcast's callback.
audioChunk ==
    [type |-> "audio_chunk", playback_position |-> 0, is_playing |-> FALSE,
     timestamp |-> perfNow]

\* The message the client receives next, and whether it is due.
NextData == p2p.sent[sync.received + 1]
Due ==
    /\ sync.received < Len(p2p.sent)
    /\ NextData.timestamp + sync.latency <= perfNow

clientFrame == <<audioContext, audioBuffer, sourceNode, startTime, pauseTime,
                 isPlaying, chunkVars, lastCall, signal, capture>>

TogglePlayback ==
    /\ sync.mode = "host" /\ sync.broadcastMode = "file"
    /\ sync.toggles < MaxToggles
    /\ sync' = [togglePlayback(sync) EXCEPT !.toggles = sync.toggles + 1]
    /\ UNCHANGED <<clockVars, clientFrame, p2p>>

\* A press on a seek button, enabled once a file was chosen.
HostSeek(forward) ==
    /\ sync.mode = "host" /\ sync.broadcastMode = "file" /\ sync.audioFile
    /\ sync.toggles < MaxToggles
    /\ sync' = [hostSeek(sync, seekTarget(sync, forward))
                   EXCEPT !.toggles = sync.toggles + 1]
    /\ UNCHANGED <<clockVars, clientFrame, p2p>>

\* toggleLiveBroadcast() while not broadcasting; the button is enabled once
\* connectionState is 'connected'.
StartLiveBroadcast(success) ==
    /\ sync.mode = "host" /\ sync.broadcastMode = "live"
    /\ p2p.reported = "connected"
    /\ ~sync.hLive
    /\ sync.toggles < MaxToggles
    /\ sync' = [startLiveBroadcast(sync, success)
                   EXCEPT !.toggles = sync.toggles + 1]
    /\ UNCHANGED <<clockVars, clientFrame, p2p>>

\* toggleLiveBroadcast() while broadcasting.
StopLiveBroadcast ==
    /\ sync.mode = "host" /\ sync.broadcastMode = "live"
    /\ p2p.reported = "connected"
    /\ sync.hLive
    /\ sync' = stopLiveBroadcast(sync)
    /\ UNCHANGED <<clockVars, clientFrame, p2p>>

\* The interval callback: setCurrentTime and sendData of a sync_state.
SyncInterval ==
    /\ sync.interval = perfNow
    /\ p2p' = Did(sendData(Fresh, syncState(sync)), "sendData", "sync_state")
    /\ sync' = [sync EXCEPT !.hCurrentTime = getCurrentTime(sync.hEngine),
                            !.interval = perfNow + SyncPeriod]
    /\ UNCHANGED <<clockVars, clientFrame>>

\* scriptProcessor.onaudioprocess: one captured chunk goes to sendData.
LiveChunk ==
    /\ sync.capture = perfNow
    /\ p2p' = Did(sendData(Fresh, audioChunk), "sendData", "audio_chunk")
    /\ sync' = [sync EXCEPT !.capture = perfNow + LiveChunkPeriod]
    /\ UNCHANGED <<clockVars, clientFrame>>

\* handleP2PData(data) on the client, case 'sync_state'.
ReceiveSyncState ==
    /\ Due /\ NextData.type = "sync_state"
    /\ SetEngine(syncWithHost(Engine, NextData.playback_position,
                              NextData.timestamp))
    /\ lastCall' = Call("syncWithHost", NextData.playback_position,
                        NextData.timestamp)
    /\ sync' = [sync EXCEPT
           !.received = sync.received + 1,
           !.ticks = sync.ticks + 1,
           !.reseek = Abs(getCurrentTime(Engine)
                          - targetTime(NextData.playback_position,
                                       NextData.timestamp)) > SyncThreshold,
           !.cCurrentTime = NextData.playback_position,
           !.cIsPlaying = NextData.is_playing]
    /\ UNCHANGED <<clockVars, audioContext, audioBuffer, chunkVars, p2p,
                   signal, capture>>

\* handleP2PData(data) on the client, case 'audio_chunk'.
ReceiveAudioChunk ==
    /\ Due /\ NextData.type = "audio_chunk"
    /\ scheduled' = Append(scheduled,
           [start |-> playTime,
            dur |-> chunkDuration(LiveChunkLength, LiveSampleRate),
            arrival |-> currentTime])
    /\ nextPlayTime' = nextSlot(LiveChunkLength, LiveSampleRate)
    /\ lastCall' = Call("playAudioChunk", LiveChunkLength, LiveSampleRate)
    /\ sync' = [sync EXCEPT !.received = sync.received + 1]
    /\ UNCHANGED <<clockVars, audioContext, audioBuffer, sourceNode,
                   startTime, pauseTime, isPlaying, p2p, signal,
                   capture>>

\* Time passes once everything that is due has happened.
Advance ==
    /\ perfNow + SyncStep <= MaxSyncClock * SyncPeriod
    /\ sync.interval # perfNow /\ sync.capture # perfNow
    /\ ~Due
    /\ perfNow' = perfNow + SyncStep
    /\ currentTime' = currentTime + Ms(SyncStep)
    /\ lastCall' = [lastCall EXCEPT !.fresh = FALSE]
    /\ UNCHANGED <<audioContext, audioBuffer, sourceNode, startTime,
                   pauseTime, isPlaying, chunkVars, p2p, sync, signal,
                   capture>>

NextSync ==
    \/ TogglePlayback
    \/ \E forward \in BOOLEAN : HostSeek(forward)
    \/ \E success \in BOOLEAN : StartLiveBroadcast(success)
    \/ StopLiveBroadcast
    \/ SyncInterval
    \/ LiveChunk
    \/ ReceiveSyncState
    \/ ReceiveAudioChunk
    \/ Advance

SpecSync == InitSync /\ [][NextSync]_vars


\* ------------------------------------------------ claims on the sync ticks
\* C18: while the host is live broadcasting, no message handed to the data
\* channel is a sync_state.
C18_NoSyncStateWhileLive ==
    [][(sync.hLive /\ Len(p2p'.sent) > Len(p2p.sent))
        => p2p'.sent[Len(p2p'.sent)].type # "sync_state"]_vars

\* C19: once the client has handled a sync_state with is_playing = true (the
\* last one it handled, whose flag is the client's isPlaying state), the
\* client's AudioSyncEngine is playing.
C19_TickStartsPlayback ==
    (sync.ticks > 0 /\ sync.cIsPlaying) => isPlaying

\* C20: with the host playing a file without interruption, the client is
\* within 50 ms of the host's position right after it handled a tick, and
\* no tick after the first makes the client's engine seek.
C20_ConvergesWithoutThrash ==
    (/\ sync.broadcastMode = "file"
     /\ sync.toggles = 1 /\ sync.hEngine.isPlaying
     /\ sync.ticks >= 1)
        => /\ (lastCall.op = "syncWithHost" /\ lastCall.fresh)
                 => Abs(getCurrentTime(Engine) - getCurrentTime(sync.hEngine))
                        <= SyncThreshold
           /\ sync.ticks >= 2 => ~sync.reseek


\* The host's file playback is paused after having played, the interval is
\* cleared, and the client has handled all that was sent.
PausedAndDelivered ==
    /\ sync.broadcastMode = "file"
    /\ ~sync.hIsPlaying /\ sync.hEngine.sourceNode = "stopped"
    /\ sync.interval = -1
    /\ sync.received = Len(p2p.sent)

\* C33: once the host has paused file playback and everything sent has
\* arrived, the client has received a sync_state with is_playing = false.
C33_PauseReachesClient ==
    PausedAndDelivered
        => \E i \in 1..sync.received :
               /\ p2p.sent[i].type = "sync_state"
               /\ ~p2p.sent[i].is_playing

\* C34: when togglePlayback resumes the host's file playback, the engine
\* plays from the position getCurrentTime() returned just before, whether or
\* not a seek button was pressed while paused.
C34_ResumeAtPausedPosition ==
    [][(/\ sync.broadcastMode = "file"
        /\ ~sync.hEngine.isPlaying /\ sync'.hEngine.isPlaying)
          => getCurrentTime(sync'.hEngine) = getCurrentTime(sync.hEngine)
      ]_vars

\* C37: the host's engine never reports a position beyond the duration of
\* its buffer, and no sync_state handed to the data channel carries one.
C37_PositionWithinBuffer ==
    sync.hBuffer # NoBuffer
        => /\ getCurrentTime(sync.hEngine) <= sync.hBuffer
           /\ \A i \in 1..Len(p2p.sent) :
                  p2p.sent[i].type = "sync_state"
                      => p2p.sent[i].playback_position <= sync.hBuffer


\* ------------------------------------------------------ the relay (spec 4.3)
\* The relay's operations take and return the whole signalling state g.

\* The relay writes envelope m to the sockets of targets.
Push(g, targets, m) ==
    [g EXCEPT !.down = [c \in ConnIds |->
                           IF c \in targets THEN Append(g.down[c], m)
                           ELSE g.down[c]]]

\* createSession(sessionId, name, hostConnId)
relayCreateSession(g, conn) ==
    IF g.session.open
    THEN Push(g, {conn}, Envelope("error", RelayId, "DuplicateSession"))
    ELSE Push([g EXCEPT !.session = [open |-> TRUE, host |-> conn,
                                     members |-> {}]],
              {conn}, Envelope("session_created", RelayId, "none"))

\* Mutant: a join is accepted whether or not the session exists.
relayJoinSession_joinsUnknown(g, conn) ==
    Push(Push([g EXCEPT !.session.members = @ \cup {conn}],
              {g.session.host}, Envelope("client_joined", conn, "none")),
         {conn}, Envelope("joined_session", RelayId, "none"))
\* joinSession(sessionId, clientConnId, clientName)
relayJoinSession(g, conn) ==
    IF ~g.session.open
    THEN Push(g, {conn}, Envelope("error", RelayId, "SessionNotFound"))
    ELSE Push(Push([g EXCEPT !.session.members = @ \cup {conn}],
                   {g.session.host}, Envelope("client_joined", conn, "none")),
              {conn}, Envelope("joined_session", RelayId, "none"))

\* The other members of the session conn belongs to.
SessionPeers(g, conn) ==
    IF g.session.open
       /\ (conn = g.session.host \/ conn \in g.session.members)
    THEN ({g.session.host} \cup g.session.members) \ {conn}
    ELSE {}

\* forward(envelopeType, payload, fromConnId, targetConnId | 'broadcast')
forward(g, type, arg, from, target) ==
    Push(g, IF target = Broadcast THEN SessionPeers(g, from)
            ELSE {target} \cap g.conns,
         Envelope(type, from, arg))

\* Mutant: a host's drop only forgets the connection.
teardown_keepsSession(g, conn) ==
    LET t == [g EXCEPT !.conns = @ \ {conn}, !.down[conn] = <<>>]
    IN  IF t.session.open /\ conn \in t.session.members
        THEN Push([t EXCEPT !.session.members = @ \ {conn}],
                  {t.session.host}, Envelope("client_left", conn, "none"))
        ELSE t
\* Connection teardown
teardown(g, conn) ==
    LET t == [g EXCEPT !.conns = @ \ {conn}, !.down[conn] = <<>>]
    IN  IF t.session.open /\ conn = t.session.host
        THEN Push([t EXCEPT !.session = [open |-> FALSE, host |-> RelayId,
                                         members |-> {}]],
                  t.session.members,
                  Envelope("session_closed", RelayId, "none"))
        ELSE IF t.session.open /\ conn \in t.session.members
             THEN Push([t EXCEPT !.session.members = @ \ {conn}],
                       {t.session.host},
                       Envelope("client_left", conn, "none"))
             ELSE t

\* The relay reads one message of connection conn.
relayReceive(g, conn, type, arg, target) ==
    CASE type = "host_create_session" -> relayCreateSession(g, conn)
      [] type = "client_join_session" -> relayJoinSession(g, conn)
      [] OTHER -> forward(g, type, arg, conn, target)

\* ------------------------------------------------- the App's signalling
\* sendWebSocketMessage(message).  What a socket sends reaches the relay in
\* order and before the socket's close does, so the relay's reading of the
\* message is taken together with the send.
sendWebSocketMessage(g, p, type, arg, target) ==
    LET a == g.app[p]
        open == a.current # 0 /\ a.ws[a.current] = "open"
        logged == [g EXCEPT !.lastSent = [type |-> type, from |-> p,
                                          target |-> target, sent |-> open]]
    IN  IF open
        THEN relayReceive(logged, <<p, a.current>>, type, arg, target)
        ELSE logged

\* The mode that the handlers of socket k have captured: the socket of the
\* setup mode was created by the render of that mode.
closureMode(p, k) ==
    IF k = 1 THEN (IF p = Host THEN "host-setup" ELSE "client-setup")
    ELSE (IF p = Host THEN "host" ELSE "client")

\* handleP2PData(data) of a render whose mode is mode: what it calls.
handleP2PData(mode, type) ==
    IF mode # "client" THEN "ignored"
    ELSE IF type = "sync_state" THEN "syncWithHost" ELSE "playAudioChunk"

\* initializeP2P(isHost) of the handlers of socket k, up to its await of
\* createOffer: the manager's onMessage is given the handleP2PData of the
\* render that created the socket.
initializeP2P(g, p, k, isHost) ==
    [g EXCEPT !.app[p].hasManager = TRUE,
              !.app[p].dataMode = closureMode(p, k),
              !.app[p].manager = initialize(P2PNew, isHost),
              !.app[p].offerPending = isHost]

\* handleWebRTCOffer(offer, fromId), with its await of createAnswer
handleWebRTCOffer(g, p, k, fromId) ==
    IF g.app[p].hasManager /\ closureMode(p, k) = "client"
    THEN sendWebSocketMessage(
             [g EXCEPT !.app[p].manager = createAnswer(@)],
             p, "webrtc_answer", "answer", fromId)
    ELSE g

\* handleWebRTCAnswer(answer)
handleWebRTCAnswer(g, p, from) ==
    IF g.app[p].hasManager
    THEN [g EXCEPT !.app[p].manager = handleAnswer(@),
                   !.app[p].answersFrom = @ \cup {from}]
    ELSE g

\* handleWebRTCIceCandidate(candidate)
handleWebRTCIceCandidate(g, p, from) ==
    IF g.app[p].hasManager
    THEN [g EXCEPT !.app[p].manager = addIceCandidate(@, "valid"),
                   !.app[p].candidatesFrom = @ \cup {from}]
    ELSE g

\* handleWebSocketMessage(message) of socket k
handleWebSocketMessage(g, p, k, m) ==
    CASE m.type = "session_created" -> initializeP2P(g, p, k, TRUE)
      [] m.type = "client_joined" ->
             [g EXCEPT !.app[p].connectedClients = @ \cup {m.from}]
      [] m.type = "joined_session" -> initializeP2P(g, p, k, FALSE)
      [] m.type = "webrtc_offer" -> handleWebRTCOffer(g, p, k, m.from)
      [] m.type = "webrtc_answer" -> handleWebRTCAnswer(g, p, m.from)
      [] m.type = "webrtc_ice_candidate" ->
             handleWebRTCIceCandidate(g, p, m.from)
      [] OTHER -> g

\* The peer connection gathers candidates once it has a local description.
Gathering(m) ==
    /\ m.peerConnection \notin {"null", "closed"}
    /\ m.signaling = "have-local-offer" \/ m.remote

\* The clients open the page one after the other: c2 once c1 has joined.
ArrivesBefore(p) == IF p = "c2" THEN {"c1"} ELSE {}

signalFrame == <<clockVars, audioContext, audioBuffer, sourceNode, startTime,
                 pauseTime, isPlaying, chunkVars, lastCall, p2p, sync,
                 capture>>

\* The mode selector's buttons: setMode('host-setup') / setMode('client-setup')
\* and the WebSocket effect that follows, connectWebSocket().
SetupMode(p) ==
    /\ signal.app[p].mode = "selector"
    /\ \A q \in ArrivesBefore(p) : signal.app[q].mode = "client"
    /\ signal' = [signal EXCEPT
           !.app[p].mode = IF p = Host THEN "host-setup" ELSE "client-setup",
           !.app[p].ws[1] = "connecting"]
    /\ UNCHANGED signalFrame

\* ws.onopen, after the relay accepted the connection
WsOpen(p, k) ==
    /\ signal.app[p].ws[k] = "connecting"
    /\ signal' = [signal EXCEPT !.app[p].ws[k] = "open",
                                !.app[p].current = k,
                                !.conns = @ \cup {<<p, k>>}]
    /\ UNCHANGED signalFrame

\* createSession()
CreateSession ==
    /\ signal.app[Host].mode = "host-setup"
    /\ LET g == sendWebSocketMessage(signal, Host, "host_create_session",
                                     "none", RelayId)
       IN  signal' = [g EXCEPT
               !.app[Host].mode = "host",
               !.app[Host].effect = TRUE,
               !.app[Host].requestOn =
                   IF g.lastSent.sent THEN signal.app[Host].current ELSE 0]
    /\ UNCHANGED signalFrame

\* joinSession(sessionId)
JoinSession(p) ==
    /\ p \in Clients
    /\ signal.app[p].mode = "client-setup"
    /\ LET g == sendWebSocketMessage(signal, p, "client_join_session",
                                     "none", RelayId)
       IN  signal' = [g EXCEPT
               !.app[p].mode = "client",
               !.app[p].effect = TRUE,
               !.app[p].joinedLate = (signal.app[Host].mode = "host"),
               !.app[p].requestOn =
                   IF g.lastSent.sent THEN signal.app[p].current ELSE 0]
    /\ UNCHANGED signalFrame

\* The WebSocket effect after setMode('host') / setMode('client'): the
\* cleanup closes wsConnection.current, then connectWebSocket().
ModeEffect(p) ==
    /\ signal.app[p].effect
    /\ signal' = [signal EXCEPT
           !.app[p].effect = FALSE,
           !.app[p].ws = [k \in Sockets |->
               IF k = signal.app[p].current /\ @[k] = "open" THEN "closing"
               ELSE IF k = 2 THEN "connecting" ELSE @[k]]]
    /\ UNCHANGED signalFrame

\* The relay sees the close of a connection.
RelayDisconnect(p, k) ==
    /\ signal.app[p].ws[k] = "closing"
    /\ <<p, k>> \in signal.conns
    /\ signal' = teardown(signal, <<p, k>>)
    /\ UNCHANGED signalFrame

\* ws.onclose
WsClose(p, k) ==
    /\ signal.app[p].ws[k] = "closing"
    /\ <<p, k>> \notin signal.conns
    /\ signal' = [signal EXCEPT !.app[p].ws[k] = "closed",
                                !.app[p].current = 0]
    /\ UNCHANGED signalFrame

\* ws.onmessage; a socket that is no longer open fires no message event.
WsMessage(p, k) ==
    /\ signal.down[<<p, k>>] # <<>>
    /\ LET m == Head(signal.down[<<p, k>>])
           g == [signal EXCEPT !.down[<<p, k>>] = Tail(@)]
       IN  signal' = IF signal.app[p].ws[k] = "open"
                     THEN handleWebSocketMessage(g, p, k, m)
                     ELSE g
    /\ UNCHANGED signalFrame

\* initializeP2P(true) after its await: createOffer() resolved, the offer
\* goes to sendWebSocketMessage.
OfferCreated(p) ==
    /\ signal.app[p].hasManager /\ signal.app[p].offerPending
    /\ signal' = sendWebSocketMessage(
           [signal EXCEPT !.app[p].offerPending = FALSE,
                          !.app[p].manager = createOffer(@)],
           p, "webrtc_offer", "offer", Broadcast)
    /\ UNCHANGED signalFrame

\* peerConnection.onicecandidate with a candidate
IceCandidate(p) ==
    /\ signal.app[p].hasManager /\ Gathering(signal.app[p].manager)
    /\ signal.app[p].produced < MaxIce
    /\ LET g == sendWebSocketMessage(signal, p, "webrtc_ice_candidate",
                                     "candidate", Broadcast)
       IN  signal' = [g EXCEPT
               !.app[p].produced = @ + 1,
               !.app[p].handed = IF g.lastSent.sent THEN @ + 1 ELSE @]
    /\ UNCHANGED signalFrame

NextSignal ==
    \/ \E p \in Participants : SetupMode(p)
    \/ \E p \in Participants, k \in Sockets : WsOpen(p, k)
    \/ CreateSession
    \/ \E p \in Clients : JoinSession(p)
    \/ \E p \in Participants : ModeEffect(p)
    \/ \E p \in Participants, k \in Sockets : RelayDisconnect(p, k)
    \/ \E p \in Participants, k \in Sockets : WsClose(p, k)
    \/ \E p \in Participants, k \in Sockets : WsMessage(p, k)
    \/ \E p \in Participants : OfferCreated(p)
    \/ \E p \in Participants : IceCandidate(p)

SpecSignal == Init /\ [][NextSignal]_vars


\* ------------------------------------------------ claims on the signalling
\* Nothing is left to happen: no effect or continuation is pending, no
\* socket is opening or closing, no envelope is unread, and every peer
\* connection that gathers has produced its candidates.
Quiescent ==
    /\ \A c \in ConnIds : signal.down[c] = <<>>
    /\ \A p \in Participants :
           LET a == signal.app[p]
           IN  /\ ~a.effect /\ ~a.offerPending
               /\ \A k \in Sockets : a.ws[k] \notin {"connecting", "closing"}
               /\ (a.hasManager /\ Gathering(a.manager))
                      => a.produced = MaxIce

\* The offer/answer exchange between the host and client c is complete on
\* both sides: c holds the host's offer and has answered, and the host has
\* applied an answer of c.
Negotiated(c) ==
    /\ signal.app[c].hasManager /\ signal.app[c].manager.remote
    /\ signal.app[Host].hasManager /\ signal.app[Host].manager.remote
    /\ \E k \in Sockets : <<c, k>> \in signal.app[Host].answersFrom

\* C11: with one host whose session was created (it has its P2PManager) and
\* one client that asked to join when the host was already in host mode and
\* was admitted (it has its P2PManager), once everything pending has
\* happened the client has received the host's offer and answered, and the
\* host has applied the answer.
C11_NegotiationCompletes ==
    (/\ signal.app[Host].mode = "host" /\ signal.app[Host].hasManager
     /\ signal.app["c1"].mode = "client" /\ signal.app["c1"].joinedLate
     /\ signal.app["c1"].hasManager
     /\ signal.app["c2"].mode = "selector"
     /\ Quiescent)
        => Negotiated("c1")

\* C12: the host has a peer connection of its own for every client it was
\* told has joined, and the answers and candidates given to one peer
\* connection all come from one client.
C12_OneConnectionPerClient ==
    LET a == signal.app[Host]
    IN  /\ Cardinality(a.connectedClients) <= (IF a.hasManager THEN 1 ELSE 0)
        /\ Cardinality({c[1] : c \in a.answersFrom \cup a.candidatesFrom}) <= 1

\* C16: an offer, answer or ICE candidate given to sendWebSocketMessage never
\* has the target 'broadcast'.
C16_PairwiseAddressing ==
    signal.lastSent.type \in {"webrtc_offer", "webrtc_answer",
                              "webrtc_ice_candidate"}
        => signal.lastSent.target # Broadcast

\* C17: every ICE candidate a peer connection has produced went out on the
\* relay WebSocket.
C17_NoCandidateDiscarded ==
    \A p \in Participants : signal.app[p].handed = signal.app[p].produced

\* C32: the handleP2PData that the P2PManager of a page in client mode
\* delivers to has captured the mode 'client': a sync_state it is given
\* invokes syncWithHost and an audio_chunk invokes playAudioChunk, whichever
\* socket joined_session arrived on.
C32_DataHandlerSeesClientMode ==
    \A p \in Clients, t \in DataTypes :
        (signal.app[p].mode = "client" /\ signal.app[p].hasManager)
            => handleP2PData(signal.app[p].dataMode, t) # "ignored"

\* C31: the state reported last through onStateChange is 'connected' exactly
\* when the data channel is open, which is exactly when sendData transmits.
C31_ReportedConnectedIffOpen ==
    (p2p.reported = "connected") <=> (p2p.dataChannel = "open")

\* C36: with the host's performance.now() shifted against the client's by
\* any offset, the latency syncWithHost estimates for a sync_state is not
\* negative, its target is not before the host's position, and the engine
\* ends as it would with the two clocks on one origin.
C36_LatencyIgnoresClockOrigins ==
    [][\A h \in HostTimes, l \in SkewLatencies, o \in ClockOffsets :
          (/\ CallStep("syncWithHost")
           /\ lastCall'.arg = h /\ lastCall'.arg2 = perfNow - l + o)
             => /\ perfNow - lastCall'.arg2 >= 0
                /\ targetTime(h, lastCall'.arg2) >= h
                /\ Engine' = syncWithHost(Engine, h, perfNow - l)]_vars

\* C38: play(x) without a decoded buffer or without an AudioContext returns
\* false and leaves isPlaying, startTime, pauseTime and the source node as
\* they were.
C38_PlayWithoutBuffer ==
    [][(CallStep("play") /\ (audioBuffer = NoBuffer \/ ~audioContext))
          => /\ lastCall'.arg2 = 0
             /\ UNCHANGED <<isPlaying, startTime, pauseTime, sourceNode>>
      ]_vars

\* play(x) was refused while a seek had left a paused position.
C38_Witness ==
    /\ lastCall.op = "play" /\ lastCall.fresh /\ lastCall.arg2 = 0
    /\ audioBuffer = NoBuffer /\ audioContext /\ pauseTime # 0

\* ---------------------------------------------------------------------------
\* Live capture: AudioSyncEngine.requestMicrophoneAccess, startLiveBroadcast,
\* stopLiveBroadcast and the script processor's onaudioprocess, with the App's
\* requestMicrophoneAccess, startLiveBroadcast, stopLiveBroadcast and
\* toggleLiveBroadcast around them.

Continuations == {"engine", "app"}

\* requestMicrophoneAccess() of the engine once getUserMedia settled: a
\* granted request stores the new stream in this.mediaStream (the stream held
\* before is not stopped), a refused one lands in the catch.
requestMicrophoneAccess(a, granted) ==
    IF granted
    THEN [a EXCEPT !.streams = @ + 1, !.mediaStream = a.streams + 1,
                   !.tracks = @ \cup {a.streams + 1}]
    ELSE a

\* The first line of the engine's startLiveBroadcast.
engineStartOk(a) == a.mediaStream # 0 /\ audioContext

\* Mutant: startLiveBroadcast without the check of this.mediaStream.
engineStartLiveBroadcast_noStreamCheck(a) ==
    [a EXCEPT !.onAudioChunk = TRUE, !.isLiveBroadcasting = TRUE,
              !.nodes = @ + 1, !.sourceAudioNode = a.nodes + 1,
              !.scriptProcessor = a.nodes + 1,
              !.connected = @ \cup {a.nodes + 1}]
\* startLiveBroadcast(onAudioChunk) of the engine: a new source node and a new
\* script processor are created and connected; the ones the fields held
\* before are overwritten, not disconnected.
engineStartLiveBroadcast(a) ==
    IF ~engineStartOk(a) THEN a
    ELSE [a EXCEPT !.onAudioChunk = TRUE, !.isLiveBroadcasting = TRUE,
                   !.nodes = @ + 1, !.sourceAudioNode = a.nodes + 1,
                   !.scriptProcessor = a.nodes + 1,
                   !.connected = @ \cup {a.nodes + 1}]

\* stopLiveBroadcast() of the engine: the flag is cleared, the processor and
\* the source node the fields hold are disconnected, the tracks of the stream
\* the field holds are stopped.
engineStopLiveBroadcast(a) ==
    [a EXCEPT !.isLiveBroadcasting = FALSE,
              !.connected = @ \ {a.scriptProcessor},
              !.scriptProcessor = 0, !.sourceAudioNode = 0,
              !.tracks = @ \ {a.mediaStream}, !.mediaStream = 0]

\* scriptProcessor.onaudioprocess over one audio frame: every connected
\* processor fires, and each calls this.onAudioChunk unless the flag is off.
onaudioprocess(a) ==
    IF a.isLiveBroadcasting /\ a.onAudioChunk
    THEN Cardinality(a.connected) ELSE 0

\* Mutant: the App starts the capture whatever requestMicrophoneAccess said.
appStartLiveBroadcast_ignoresRefusal(a, success) ==
    IF engineStartOk(a)
    THEN [engineStartLiveBroadcast(a) EXCEPT
             !.appLive = TRUE, !.appPlaying = TRUE]
    ELSE a
\* The App's startLiveBroadcast from the result of its microphone request on:
\* alert and return on a refusal, else the engine's startLiveBroadcast and,
\* on success, setIsLiveBroadcasting(true), setIsPlaying(true).
appStartLiveBroadcast(a, success) ==
    IF ~success THEN a
    ELSE IF engineStartOk(a)
         THEN [engineStartLiveBroadcast(a) EXCEPT
                  !.appLive = TRUE, !.appPlaying = TRUE]
         ELSE a

\* The App's requestMicrophoneAccess after the engine's returned.
appRequestMicrophoneAccess(a, success) ==
    [a EXCEPT !.hasMicrophoneAccess = success,
              !.broadcastMode = IF success THEN "live" ELSE @]

\* The App's stopLiveBroadcast.
appStopLiveBroadcast(a) ==
    [engineStopLiveBroadcast(a) EXCEPT
        !.appLive = FALSE, !.appPlaying = FALSE]

Ret(b) == IF b THEN 1 ELSE 0

captureFrame == <<clockVars, audioContext, audioBuffer, sourceNode,
                  startTime, pauseTime, isPlaying, chunkVars, p2p, sync,
                  signal>>

Without(q, i) == [j \in 1..(Len(q) - 1) |-> IF j < i THEN q[j] ELSE q[j + 1]]

\* The broadcasting mode buttons of the host's setup page.
SetBroadcastMode(b) ==
    /\ capture.broadcastMode # b
    /\ capture' = [capture EXCEPT !.broadcastMode = b]
    /\ lastCall' = Call("setBroadcastMode", 0, 0)
    /\ UNCHANGED captureFrame

\* A call of the engine's requestMicrophoneAccess(): getUserMedia is pending.
EngineRequestMicrophoneAccess ==
    /\ capture.requests < MaxCaptures
    /\ capture' = [capture EXCEPT !.requests = @ + 1,
                                  !.pending = Append(@, "engine")]
    /\ lastCall' = Call("getUserMedia", 0, 0)
    /\ UNCHANGED captureFrame

\* A call of the engine's startLiveBroadcast(cb).
EngineStartLiveBroadcast ==
    /\ capture.nodes < MaxCaptures
    /\ capture' = engineStartLiveBroadcast(capture)
    /\ lastCall' = Call("startLiveBroadcast", 0, Ret(engineStartOk(capture)))
    /\ UNCHANGED captureFrame

\* A call of the engine's stopLiveBroadcast().
EngineStopLiveBroadcast ==
    /\ capture' = engineStopLiveBroadcast(capture)
    /\ lastCall' = Call("stopLiveBroadcast", 0, 0)
    /\ UNCHANGED captureFrame

\* A click on the live button, toggleLiveBroadcast(): the App's
\* stopLiveBroadcast when its isLiveBroadcasting state is set, else its
\* startLiveBroadcast, which awaits the microphone when hasMicrophoneAccess
\* is not set and starts the engine's capture at once when it is.
ToggleLiveBroadcast ==
    /\ capture.broadcastMode = "live"
    /\ IF capture.appLive
       THEN /\ capture' = appStopLiveBroadcast(capture)
            /\ lastCall' = Call("stopLiveBroadcast", 1, 0)
       ELSE IF ~capture.hasMicrophoneAccess
       THEN /\ capture.requests < MaxCaptures
            /\ capture' = [capture EXCEPT !.requests = @ + 1,
                                          !.pending = Append(@, "app")]
            /\ lastCall' = Call("getUserMedia", 1, 0)
       ELSE /\ capture.nodes < MaxCaptures
            /\ capture' = appStartLiveBroadcast(capture, TRUE)
            /\ lastCall' = Call("startLiveBroadcast", 1,
                                Ret(engineStartOk(capture)))
    /\ UNCHANGED captureFrame

\* getUserMedia settles for the i-th pending request, and what awaited it
\* runs: the rest of the engine's requestMicrophoneAccess and, for a request
\* of the App's startLiveBroadcast, the App's requestMicrophoneAccess and the
\* rest of startLiveBroadcast.
GetUserMediaSettles(i, granted) ==
    /\ i \in 1..Len(capture.pending)
    /\ capture.nodes < MaxCaptures
    /\ LET a == requestMicrophoneAccess(
                    [capture EXCEPT !.pending = Without(@, i)], granted)
       IN  capture' = IF capture.pending[i] = "app"
                      THEN appStartLiveBroadcast(
                               appRequestMicrophoneAccess(a, granted), granted)
                      ELSE a
    /\ lastCall' = Call("requestMicrophoneAccess", Ret(granted),
                        Ret(capture.pending[i] = "app"))
    /\ UNCHANGED captureFrame

\* One audio frame: the connected script processors fire.
AudioProcess ==
    /\ capture.connected # {}
    /\ capture' = [capture EXCEPT !.delivered = onaudioprocess(capture)]
    /\ lastCall' = Call("onaudioprocess", onaudioprocess(capture), 0)
    /\ UNCHANGED captureFrame

NextCapture ==
    \/ Initialize
    \/ \E b \in {"file", "live"} : SetBroadcastMode(b)
    \/ EngineRequestMicrophoneAccess
    \/ EngineStartLiveBroadcast
    \/ EngineStopLiveBroadcast
    \/ ToggleLiveBroadcast
    \/ \E i \in 1..MaxCaptures, granted \in BOOLEAN :
           GetUserMediaSettles(i, granted)
    \/ AudioProcess

SpecCapture == Init /\ [][NextCapture]_vars

\* ---------------------------------------------------------------------------
\* The claims on the live capture.

Released(a) == a.tracks = {}
EngineCapture(a) ==
    <<a.mediaStream, a.isLiveBroadcasting, a.onAudioChunk, a.scriptProcessor,
      a.sourceAudioNode, a.tracks, a.connected>>

\* C21: once stopLiveBroadcast() has returned no audio frame invokes
\* onAudioChunk, and the microphone is released: no stream getUserMedia
\* returned has live tracks; a stopLiveBroadcast() that follows another one
\* changes no field of the engine and nothing of the audio graph, and one
\* called before any capture was started leaves the capture flag, the nodes
\* and the graph alone.
C21_StopEndsCapture ==
    [][/\ CallStep("stopLiveBroadcast") => Released(capture')
       /\ (CallStep("stopLiveBroadcast") /\ capture.nodes = 0)
             => /\ ~capture'.isLiveBroadcasting /\ capture'.connected = {}
                /\ capture'.scriptProcessor = 0
                /\ capture'.sourceAudioNode = 0
       /\ (CallStep("onaudioprocess") /\ ~capture.isLiveBroadcasting)
             => capture'.delivered = 0
       /\ (CallStep("stopLiveBroadcast") /\ lastCall.op = "stopLiveBroadcast")
             => EngineCapture(capture') = EngineCapture(capture)]_vars

\* C22: whatever the sequence of starts and stops, at most one script
\* processor is connected, and an audio frame invokes onAudioChunk at most
\* once.
C22_OneCapturePipeline ==
    /\ Cardinality(capture.connected) <= 1
    /\ capture.delivered <= 1

C35_RestartAfterStop ==
    [][(/\ CallStep("startLiveBroadcast") /\ lastCall'.arg = 1
        /\ capture.hasMicrophoneAccess /\ audioContext
        /\ capture.nodes > 0 /\ ~capture.isLiveBroadcasting)
          => /\ capture'.isLiveBroadcasting /\ capture'.appLive
             /\ capture'.connected # {}
             /\ onaudioprocess(capture') > 0]_vars

Pair == {Host, "c1"}

\* The network takes an open socket down: the socket leaves OPEN, the relay
\* sees the connection end and the page's ws.onclose fires after it.
NetworkDrop(p, k) ==
    /\ signal.app[p].ws[k] = "open"
    /\ signal' = [signal EXCEPT !.app[p].ws[k] = "closing"]
    /\ UNCHANGED signalFrame

NextReconnect ==
    \/ \E p \in Pair : SetupMode(p)
    \/ \E p \in Pair, k \in Sockets : WsOpen(p, k)
    \/ CreateSession
    \/ JoinSession("c1")
    \/ \E p \in Pair : ModeEffect(p)
    \/ \E p \in Pair, k \in Sockets : RelayDisconnect(p, k)
    \/ \E p \in Pair, k \in Sockets : WsClose(p, k)
    \/ \E p \in Pair, k \in Sockets : WsMessage(p, k)
    \/ \E p \in Pair : OfferCreated(p)
    \/ \E p \in Pair : IceCandidate(p)
    \/ \E p \in Pair, k \in Sockets : NetworkDrop(p, k)

SpecReconnect == Init /\ [][NextReconnect]_vars

\* ---------------------------------------------------------------------------
\* The Signaling Relay by itself: connections come and go, and each sends
\* create, join and forward requests.

HostConns == {<<Host, 1>>, <<Host, 2>>}
ClientConns == {<<"c1", 1>>, <<"c2", 1>>}
RelayConns == HostConns \cup ClientConns
Targets == HostConns \cup {Broadcast}

Room(g) == \A c \in RelayConns : Len(g.down[c]) < MaxQueue
Event(g, op, conn, target) ==
    [g EXCEPT !.event = [op |-> op, conn |-> conn, target |-> target]]

\* A transport connection is accepted and gets its identity.
RelayConnect(c) ==
    /\ signal.app[c[1]].ws[c[2]] = "none"
    /\ signal' = Event([signal EXCEPT !.app[c[1]].ws[c[2]] = "open",
                                      !.conns = @ \cup {c}],
                       "connect", c, RelayId)
    /\ UNCHANGED signalFrame

\* createSession by a connected host
RelayCreate(c) ==
    /\ c \in signal.conns /\ Room(signal)
    /\ signal' = Event(relayReceive(signal, c, "host_create_session", "none",
                                    RelayId),
                       "host_create_session", c, RelayId)
    /\ UNCHANGED signalFrame

\* joinSession by a connected client
RelayJoin(c) ==
    /\ c \in signal.conns /\ Room(signal)
    /\ signal' = Event(relayReceive(signal, c, "client_join_session", "none",
                                    RelayId),
                       "client_join_session", c, RelayId)
    /\ UNCHANGED signalFrame

\* forward of an envelope from a client's connection to target
RelayForward(c, target) ==
    /\ c \in signal.conns /\ Room(signal)
    /\ signal' = Event(relayReceive(signal, c, "webrtc_offer", "offer",
                                    target),
                       "forward", c, target)
    /\ UNCHANGED signalFrame

\* A connection drops: teardown.
RelayDrop(c) ==
    /\ c \in signal.conns
    /\ signal' = Event([teardown(signal, c) EXCEPT
                           !.app[c[1]].ws[c[2]] = "closed",
                           !.torn = IF signal.session.open
                                       /\ c = signal.session.host
                                    THEN [host |-> c,
                                          members |-> signal.session.members]
                                    ELSE @],
                       "drop", c, RelayId)
    /\ UNCHANGED signalFrame

\* A participant reads the next envelope of its connection.
RelayDeliver(c) ==
    /\ signal.down[c] # <<>>
    /\ signal' = Event([signal EXCEPT !.down[c] = Tail(@)],
                       "deliver", c, RelayId)
    /\ UNCHANGED signalFrame

NextRelay ==
    \/ \E c \in RelayConns : RelayConnect(c)
    \/ \E c \in HostConns : RelayCreate(c)
    \/ \E c \in ClientConns : RelayJoin(c)
    \/ \E c \in ClientConns, target \in Targets : RelayForward(c, target)
    \/ \E c \in RelayConns : RelayDrop(c)
    \/ \E c \in RelayConns : RelayDeliver(c)

SpecRelay == Init /\ [][NextRelay]_vars

\* ---------------------------------------------------------------------------
\* The claims on the relay WebSocket of a page.

\* C26: a page is in mode 'host' only once session_created has reached it and
\* in mode 'client' only once joined_session has (the message that sets the
\* session id and creates the page's P2PManager); a create or join that
\* failed or never reached the relay leaves the mode alone.
C26_ModeOnlyAfterRelayAnswer ==
    \A p \in Participants :
        signal.app[p].mode \in {"host", "client"} => signal.app[p].hasManager

\* C29: the WebSocket effect that runs because the page's own createSession
\* or joinSession changed the mode does not close the socket that carried
\* the page's request.
C29_ModeChangeKeepsRequestSocket ==
    [][\A p \in Participants, k \in Sockets :
          (/\ signal.app[p].effect /\ ~signal'.app[p].effect
           /\ signal.app[p].requestOn = k /\ signal.app[p].ws[k] = "open")
             => signal'.app[p].ws[k] = "open"]_vars

\* C30: wsConnection.current is null or the newest of the page's sockets that
\* are open, and the onclose of an older socket leaves a reference to a newer
\* open socket in place.
C30_CurrentIsNewestOpen ==
    /\ [](\A p \in Participants :
             LET a == signal.app[p]
             IN  \/ a.current = 0
                 \/ /\ a.ws[a.current] = "open"
                    /\ \A k \in Sockets : a.ws[k] = "open" => k <= a.current)
    /\ [][\A p \in Participants, k \in Sockets, n \in Sockets :
             (/\ k < n /\ signal.app[p].ws[k] = "closing"
              /\ signal'.app[p].ws[k] = "closed"
              /\ signal.app[p].ws[n] = "open" /\ signal.app[p].current = n)
                => signal'.app[p].current = n]_vars

\* Every socket the page created has fired its onclose and no effect that
\* would create another is due: nothing the page does will connect it again.
Cut(p) ==
    /\ ~signal.app[p].effect
    /\ \A k \in Sockets : signal.app[p].ws[k] \in {"none", "closed"}

\* C25: a page in mode 'host' or 'client' whose relay socket was closed by
\* the network gets a relay connection again by itself: it is never left
\* with all its sockets closed and no connect due.
C25_ReconnectsAfterDrop ==
    \A p \in Pair : signal.app[p].mode \in {"host", "client"} => ~Cut(p)

\* ---------------------------------------------------------------------------
\* The claims on the Signaling Relay.

Newest(q) == q[Len(q)]

\* C27: a joinSession for a session the relay does not hold fails with
\* SessionNotFound, reported to the caller alone, and leaves the session
\* registry, its membership and the connections as they were.
C27_UnknownSessionJoinFails ==
    [][(signal'.event.op = "client_join_session" /\ ~signal.session.open)
          => /\ signal'.session = signal.session
             /\ signal'.conns = signal.conns
             /\ signal'.down =
                    [signal.down EXCEPT ![signal'.event.conn] =
                        Append(@, Envelope("error", RelayId,
                                           "SessionNotFound"))]]_vars

\* A client asked to join after the session it might have meant was torn
\* down, and got the error.
C27_Witness ==
    /\ signal.event.op = "client_join_session"
    /\ ~signal.session.open /\ signal.torn.host # RelayId
    /\ signal.down[signal.event.conn]
           = <<Envelope("error", RelayId, "SessionNotFound")>>

\* C28: when the connection of a session's host drops the session is torn
\* down and every member is told so; what a former client that joined no
\* other session forwards afterwards, to the old host or as a broadcast,
\* reaches no connection.
C28_HostDropEndsSession ==
    [][/\ (/\ signal'.event.op = "drop" /\ signal.session.open
           /\ signal'.event.conn = signal.session.host)
             => /\ ~signal'.session.open
                /\ \A m \in signal.session.members :
                       /\ signal'.down[m] # <<>>
                       /\ Newest(signal'.down[m])
                              = Envelope("session_closed", RelayId, "none")
       /\ (/\ signal'.event.op = "forward"
           /\ signal'.event.conn \in signal.torn.members
           /\ signal'.event.conn \notin signal.session.members
           /\ signal'.event.target \in {signal.torn.host, Broadcast})
             => signal'.down = signal.down]_vars

\* A former client forwards to the old host while the host, connected anew,
\* holds a new session with another member.
C28_Witness ==
    /\ signal.event.op = "forward"
    /\ signal.event.conn \in signal.torn.members
    /\ signal.event.target = signal.torn.host
    /\ signal.session.open /\ signal.session.members # {}
    /\ signal.event.conn \notin signal.session.members

====
